---- MODULE Spec2Model ----
(***************************************************************************)
(* A model of pyroomacoustics/bss/ILRMA.py: one call of ILRMA(), followed  *)
(* from the argument checks through the outer iterations to the return.    *)
(*                                                                         *)
(* Numbers are modelled by their class, which every operation of the code  *)
(* maps exactly or conservatively:                                         *)
(*   "zero"  exactly 0                                                     *)
(*   "nz"    finite and non-zero (for a real non-negative array: > 0)      *)
(*   "lo"    a stored T/V entry in (0, 0.001)                              *)
(*   "hi"    a stored T/V entry that is finite and >= 0.001                *)
(*   "fin"   finite, possibly 0 (a sum that may cancel, an inverse entry)  *)
(*   "inf"   infinite (a division of a non-zero number by 0)               *)
(*   "nan"   not a number                                                  *)
(* Floating-point overflow and underflow are not modelled.                 *)
(* Python indices are 0-based in the variables (epoch, s, n) and arrays    *)
(* are 1-based tuples: the array element a[i, j, k] is a[i+1][j+1][k+1].   *)
(***************************************************************************)
EXTENDS Integers, Sequences, FiniteSets, TLC

VARIABLES
    pc,            \* "idle", "epoch", "source", "final", "done", "raised"
    err,           \* the exception that ended the call, "" if none
    Xarg,          \* the caller's array X, shape (d0, d1, channels)
    X,             \* the local X: the transposed view of Xarg
    n_freq, n_frames, n_chan,
    n_src, n_iter, n_components,
    proj_back, return_filters, callback,
    mem,           \* the array objects that W0 and W may refer to
    W0,            \* the caller's reference: "None" or "obj_W0"
    W,             \* the local reference: "unbound", "obj_W0" or "obj_W"
    T, V, R, P, Y,
    n,             \* the loop variable of line 84: <<>> while unbound, else <<value>>
    epoch, s,
    cbEpochs,      \* the epochs at which the callback was invoked, in order
    cbArg,         \* the argument of the latest callback invocation
    ret            \* <<>>, <<Y>> or <<Y, W>>

vars == <<pc, err, Xarg, X, n_freq, n_frames, n_chan, n_src, n_iter, n_components,
          proj_back, return_filters, callback, mem, W0, W, T, V, R, P, Y, n,
          epoch, s, cbEpochs, cbArg, ret>>

-----------------------------------------------------------------------------
(* Bounds of the model *)
MaxDim == 2        \* the first two dimensions of X range over 1..MaxDim
MaxChan == 2       \* channels (and the n_src argument) range over 1..MaxChan
MaxIter == 21      \* n_iter ranges up to MaxIter
MaxComp == 1       \* n_components is -1, 0 or MaxComp

(* The callback period of line 98 *)
CallbackEvery == 10

XFills == {"nz", "mix"}
RandSeeds == {"hi", "lo"}
NIterChoices == {k \in -1..MaxIter : k <= 1 \/ k = CallbackEvery \/ k = MaxIter}
NCompChoices == {-1, 0, MaxComp}

-----------------------------------------------------------------------------
(* Arithmetic on classes *)

Norm(a) == IF a \in {"lo", "hi"} THEN "nz" ELSE a

Mul(a0, b0) ==
    LET a == Norm(a0)
        b == Norm(b0)
    IN  IF a = "nan" \/ b = "nan" THEN "nan"
        ELSE IF a = "inf" \/ b = "inf"
             THEN (IF a \in {"zero", "fin"} \/ b \in {"zero", "fin"} THEN "nan" ELSE "inf")
        ELSE IF a = "zero" \/ b = "zero" THEN "zero"
        ELSE IF a = "fin" \/ b = "fin" THEN "fin"
        ELSE "nz"

\* np.power(x, -1.) on a non-negative real: 1/0 is inf, 1/inf is 0.
PowM1(a0) ==
    LET a == Norm(a0)
    IN  CASE a = "zero" -> "inf"
          [] a = "inf" -> "zero"
          [] a = "nan" -> "nan"
          [] a = "fin" -> "nan"    \* not reached: the code inverts only R and sums built from T and V
          [] OTHER -> "nz"

\* np.power(x, -2.)
PowM2(a) == PowM1(Mul(a, a))

\* np.power(x, 0.5)
Sqrt(a) == Norm(a)

\* np.divide(x, y): 0/0 and inf/inf are nan, x/0 is inf.
Div(a, b) == Mul(a, PowM1(b))

Conj(a) == a

\* np.power(abs(y), 2.)
Abs2(a) == Mul(a, a)

\* The sum of non-negative reals (no cancellation).
SumPos(xs) ==
    LET S == {Norm(xs[i]) : i \in DOMAIN xs}
    IN  IF "nan" \in S THEN "nan"
        ELSE IF "inf" \in S THEN "inf"
        ELSE IF "nz" \in S THEN "nz"
        ELSE IF "fin" \in S THEN "fin"
        ELSE "zero"

\* The sum of complex numbers: two non-zero terms may cancel.
SumC(xs) ==
    LET S == {Norm(xs[i]) : i \in DOMAIN xs}
        nonzero == {i \in DOMAIN xs : xs[i] # "zero"}
    IN  IF "nan" \in S THEN "nan"
        ELSE IF "inf" \in S THEN "inf"
        ELSE IF nonzero = {} THEN "zero"
        ELSE IF Cardinality(nonzero) = 1 /\ "fin" \notin S THEN "nz"
        ELSE "fin"

-----------------------------------------------------------------------------
(* Arrays: tuples, built element by element *)

Arr1(d1, e(_)) == [i \in 1..d1 |-> e(i)] \o <<>>
Arr2(d1, d2, e(_, _)) == Arr1(d1, LAMBDA i : Arr1(d2, LAMBDA j : e(i, j)))
Arr3(d1, d2, d3, e(_, _, _)) ==
    Arr1(d1, LAMBDA i : Arr1(d2, LAMBDA j : Arr1(d3, LAMBDA k : e(i, j, k))))

Shape3(A) == <<Len(A), Len(A[1]), Len(A[1][1])>>

\* np.transpose(X, (1, 0, 2))
Transpose102(A) ==
    Arr2(Len(A[1]), Len(A), LAMBDA i, j : A[j][i])

\* The caller's X: all entries non-zero, or a pattern with zeros.
XInput(fill, d0, d1, c) ==
    Arr3(d0, d1, c, LAMBDA i, j, k :
        IF fill = "mix" /\ (i + j + k) % 2 = 0 THEN "zero" ELSE "nz")

\* The caller's W0, shape (n_freq, n_chan, n_chan): a dense matrix per frequency.
W0Input(nf, nc) == Arr3(nf, nc, nc, LAMBDA f, i, j : "nz")

\* np.eye(n_chan, n_src) for every frequency
EyeW(nf, nc, ns) ==
    Arr3(nf, nc, ns, LAMBDA f, i, j : IF i = j THEN "nz" ELSE "zero")

\* np.random.rand(d1, d2, d3): positive values, all >= 0.001 or some below it
Rand(seed, d1, d2, d3, off) ==
    Arr3(d1, d2, d3, LAMBDA i, j, k :
        IF seed = "lo" /\ (i + j + k + off) % 2 = 0 THEN "lo" ELSE "hi")

\* np.zeros((d1, d2, d3))
Zeros(d1, d2, d3) == Arr3(d1, d2, d3, LAMBDA i, j, k : "zero")

\* np.dot(T[:, :, src], V[:, :, src]) at [f, t]; src is 1-based
DotTV(Tm, Vm, f, t, src) ==
    SumPos(Arr1(Len(Vm), LAMBDA k : Mul(Tm[f][k][src], Vm[k][t][src])))

-----------------------------------------------------------------------------
(* Lines 55-94: argument handling and initialisation *)

\* line 59-60: n_src defaults to the channel count; the argument is {} for None
EffectiveNSrc(nsrcArg, nc) ==
    IF nsrcArg = {} THEN nc ELSE CHOOSE k \in nsrcArg : TRUE

\* line 63: assert n_chan == n_src
DeterminedCaseMut(nc, ns) == nc >= ns
DeterminedCase(nc, ns) == nc = ns

\* lines 66-69: the object W refers to; np.array(...) and W0.copy() both make a new one
WObjectMut(w0) == IF w0 = "None" THEN "obj_W" ELSE w0
WObject(w0) == "obj_W"

\* lines 76-77: np.random.rand raises ValueError on a negative dimension
RandDimsOKMut(k) == TRUE
RandDimsOK(k) == k >= 0

\* line 84: range(0, n_src - 1), the sources whose R is initialised
RInitRange(ns) == 0..(ns - 2)

\* lines 79, 84-85
InitR(Tm, Vm, nf, nt, ns) ==
    Arr3(nf, nt, ns, LAMBDA f, t, src :
        IF (src - 1) \in RInitRange(ns) THEN DotTV(Tm, Vm, f, t, src) ELSE "zero")

\* line 84: the value the loop leaves in n
LoopVarAfter(ns) == IF RInitRange(ns) = {} THEN <<>> ELSE <<ns - 2>>

\* line 87 and line 130
PowerOf(Ym) ==
    Arr3(Len(Ym), Len(Ym[1]), Len(Ym[1][1]), LAMBDA f, t, src : Abs2(Ym[f][t][src]))

\* lines 90-92: Y[f,:,:] = np.dot(X[f,:,:], np.conj(W[f,:,:]))
demix(Xm, Wm) ==
    Arr3(Len(Xm), Len(Xm[1]), Len(Wm[1][1]), LAMBDA f, t, src :
        SumC(Arr1(Len(Xm[f][t]), LAMBDA c : Mul(Xm[f][t][c], Conj(Wm[f][c][src])))))

\* line 96: range(n_iter)
EpochRange(ni) == 0..(ni - 1)

\* line 98
CallbackDueMut(cb, e) == cb /\ e % CallbackEvery = 0 /\ e > 0
CallbackDue(cb, e) == cb /\ e % CallbackEvery = 0

\* The scaling vector of projection_back(Y, X[:,:,0]), one finite factor per
\* index of Y's second axis and source (it is broadcast as z[None,:,:]).
projection_back(Ym, ref) ==
    Arr2(Len(Ym[1]), Len(Ym[1][1]), LAMBDA t, src : "fin")

\* lines 101 and 137: Y * np.conj(z[None,:,:])
Scaled(Ym, z) ==
    Arr3(Len(Ym), Len(Ym[1]), Len(Ym[1][1]), LAMBDA f, t, src :
        Mul(Ym[f][t][src], Conj(z[t][src])))

\* X[:,:,0]
RefChannel(Xm) == Arr2(Len(Xm), Len(Xm[1]), LAMBDA f, t : Xm[f][t][1])

\* lines 99-103: what the callback is handed
CallbackArgument(Ym, Xm, pb) ==
    IF pb THEN Scaled(Ym, projection_back(Ym, RefChannel(Xm))) ELSE Ym

-----------------------------------------------------------------------------
(* Lines 107-127: the update of one source; src is the 1-based source *)

\* T[T < 0.001] = 0.001 on one entry: nan and inf fail the comparison and stay
Floor(a) == IF a \in {"nan", "inf"} THEN a ELSE "hi"

FloorAll(A) ==
    Arr1(Len(A), LAMBDA i : Arr1(Len(A[i]), LAMBDA j :
        Arr1(Len(A[i][j]), LAMBDA k : Floor(A[i][j][k]))))

\* lines 108-110: the new T[f, k, s]
NewT(Tm, Vm, Rm, Pm, f, k, src) ==
    LET nt == Len(Rm[1])
        num == SumPos(Arr1(nt, LAMBDA t :
                   Mul(Mul(Pm[f][t][src], PowM2(Rm[f][t][src])), Vm[k][t][src])))
        den == SumPos(Arr1(nt, LAMBDA t : Mul(PowM1(Rm[f][t][src]), Vm[k][t][src])))
    IN  Mul(Tm[f][k][src], Sqrt(Div(num, den)))

\* lines 108-111
UpdateT(Tm, Vm, Rm, Pm, src) ==
    FloorAll(Arr1(Len(Tm), LAMBDA f : Arr1(Len(Tm[f]), LAMBDA k :
        Arr1(Len(Tm[f][k]), LAMBDA q :
            IF q = src THEN NewT(Tm, Vm, Rm, Pm, f, k, src) ELSE Tm[f][k][q]))))

\* lines 113 and 119: R[:, :, s] = np.dot(T[:, :, s], V[:, :, s])
RefreshR(Rm, Tm, Vm, src) ==
    Arr3(Len(Rm), Len(Rm[1]), Len(Rm[1][1]), LAMBDA f, t, q :
        IF q = src THEN DotTV(Tm, Vm, f, t, src) ELSE Rm[f][t][q])

\* lines 115-116: the new V[k, t, s]
NewV(Tm, Vm, Rm, Pm, k, t, src) ==
    LET nf == Len(Rm)
        num == SumPos(Arr1(nf, LAMBDA f :
                   Mul(Tm[f][k][src], Mul(Pm[f][t][src], PowM2(Rm[f][t][src])))))
        den == SumPos(Arr1(nf, LAMBDA f : Mul(Tm[f][k][src], PowM1(Rm[f][t][src]))))
    IN  Mul(Vm[k][t][src], Sqrt(Div(num, den)))

\* lines 115-117
UpdateV(Tm, Vm, Rm, Pm, src) ==
    FloorAll(Arr1(Len(Vm), LAMBDA k : Arr1(Len(Vm[k]), LAMBDA t :
        Arr1(Len(Vm[k][t]), LAMBDA q :
            IF q = src THEN NewV(Tm, Vm, Rm, Pm, k, t, src) ELSE Vm[k][t][q]))))

\* lines 123-124: U[f, s, :, :], the transposed weighted covariance over n_frames
AuxU(Xm, Rm, f, src) ==
    Arr2(Len(Xm[f][1]), Len(Xm[f][1]), LAMBDA i, j :
        SumC(Arr1(Len(Xm[f]), LAMBDA t :
            Mul(Mul(Conj(Xm[f][t][j]), Xm[f][t][i]), PowM1(Rm[f][t][src])))))

\* np.dot of two matrices of complex numbers
MatMul(A, B) ==
    Arr2(Len(A), Len(B[1]), LAMBDA i, j :
        SumC(Arr1(Len(B), LAMBDA k : Mul(A[i][k], B[k][j]))))

NonFinite(M) == \E i \in 1..Len(M) : \E j \in 1..Len(M[i]) : M[i][j] \in {"nan", "inf"}

ZeroRowOrCol(M) ==
    \/ \E i \in 1..Len(M) : \A j \in 1..Len(M[i]) : M[i][j] = "zero"
    \/ \E j \in 1..Len(M[1]) : \A i \in 1..Len(M) : M[i][j] = "zero"

\* np.linalg.inv raises LinAlgError on an exactly singular matrix: a finite
\* matrix may be singular unless it is a non-zero 1x1 matrix; a matrix with a
\* nan or inf entry has no zero pivot.
InvMayRaise(M) == ~NonFinite(M) /\ ~(Len(M) = 1 /\ M[1][1] = "nz")
InvMayReturn(M) == NonFinite(M) \/ ~ZeroRowOrCol(M)

\* the class of every entry of np.linalg.inv(M) when it returns
InvEntry(M) == IF NonFinite(M) THEN "nan" ELSE IF Len(M) = 1 THEN "nz" ELSE "fin"

inv(M) == Arr2(Len(M), Len(M), LAMBDA i, j : InvEntry(M))

\* line 126, the operand of inv: np.dot(W[f, :, :], U[f, s, :, :])
RowSystem(Wm, Xm, Rm, f, src) == MatMul(Wm[f], AuxU(Xm, Rm, f, src))

\* line 127: w * (conj(w).T . U . w) ** 0.5
Normalised(w, U) ==
    LET wU == Arr1(Len(U), LAMBDA j : SumC(Arr1(Len(U), LAMBDA i : Mul(Conj(w[i]), U[i][j]))))
        q == SumC(Arr1(Len(U), LAMBDA j : Mul(wU[j], w[j])))
    IN  Arr1(Len(w), LAMBDA i : Mul(w[i], Sqrt(q)))

\* lines 126-127: the new row W[f, s, :]
NewRow(Wm, Xm, Rm, f, src) ==
    LET U == AuxU(Xm, Rm, f, src)
        Minv == inv(MatMul(Wm[f], U))
    IN  Normalised(Arr1(Len(Minv), LAMBDA i : Minv[i][src]), U)

\* lines 122-127 for the frequencies 1..upto
UpdateRows(Wm, Xm, Rm, src, upto) ==
    Arr1(Len(Wm), LAMBDA f :
        IF f <= upto
        THEN Arr1(Len(Wm[f]), LAMBDA i :
                 IF i = src THEN NewRow(Wm, Xm, Rm, f, src) ELSE Wm[f][i])
        ELSE Wm[f])

-----
(* The call *)

Init ==
    /\ pc = "idle" /\ err = ""
    /\ Xarg = <<>> /\ X = <<>>
    /\ n_freq = 0 /\ n_frames = 0 /\ n_chan = 0
    /\ n_src = 0 /\ n_iter = 0 /\ n_components = 0
    /\ proj_back = FALSE /\ return_filters = FALSE /\ callback = FALSE
    /\ mem = [obj_W0 |-> <<>>, obj_W |-> <<>>]
    /\ W0 = "None" /\ W = "unbound"
    /\ T = <<>> /\ V = <<>> /\ R = <<>> /\ P = <<>> /\ Y = <<>>
    /\ n = <<>>
    /\ epoch = 0 /\ s = 0
    /\ cbEpochs = <<>> /\ cbArg = <<>>
    /\ ret = <<>>

\* where the for loop of line 96 goes once `done` outer iterations are over
LoopHead(done, ni) == IF done \in EpochRange(ni) THEN "epoch" ELSE "final"

\* lines 55-94: the caller passes its arguments; the call checks and initialises
Call(xin, nsrcArg, ni, pb, w0, k, cb, rf, seed) ==
    /\ pc = "idle"
    /\ LET x == Transpose102(xin)
           nf == Shape3(x)[1]
           nt == Shape3(x)[2]
           nc == Shape3(x)[3]
           ns == EffectiveNSrc(nsrcArg, nc)
           memIn == [obj_W0 |-> IF w0 = "None" THEN <<>> ELSE W0Input(nf, nc),
                     obj_W |-> <<>>]
           wobj == WObject(w0)
           winit == IF w0 = "None" THEN EyeW(nf, nc, ns) ELSE memIn[w0]
           mem1 == [memIn EXCEPT ![wobj] = winit]
           T0 == Rand(seed, nf, k, ns, 0)
           V0 == Rand(seed, k, nt, ns, 1)
       IN  /\ Xarg' = xin /\ X' = x
           /\ n_freq' = nf /\ n_frames' = nt /\ n_chan' = nc
           /\ n_src' = ns /\ n_iter' = ni /\ n_components' = k
           /\ proj_back' = pb /\ return_filters' = rf /\ callback' = cb
           /\ W0' = w0
           /\ epoch' = 0 /\ s' = 0
           /\ cbEpochs' = <<>> /\ cbArg' = <<>> /\ ret' = <<>>
           /\ IF ~DeterminedCase(nc, ns)
              THEN /\ pc' = "raised" /\ err' = "AssertionError"
                   /\ mem' = memIn /\ W' = "unbound"
                   /\ T' = <<>> /\ V' = <<>> /\ R' = <<>> /\ P' = <<>> /\ Y' = <<>>
                   /\ n' = <<>>
              ELSE IF ~RandDimsOK(k)
              THEN /\ pc' = "raised" /\ err' = "ValueError"
                   /\ mem' = mem1 /\ W' = wobj
                   /\ T' = <<>> /\ V' = <<>> /\ R' = <<>> /\ P' = <<>> /\ Y' = <<>>
                   /\ n' = <<>>
              ELSE /\ pc' = LoopHead(0, ni) /\ err' = ""
                   /\ mem' = mem1 /\ W' = wobj
                   /\ T' = T0 /\ V' = V0
                   /\ R' = InitR(T0, V0, nf, nt, ns)
                   /\ n' = LoopVarAfter(ns)
                   /\ P' = PowerOf(Zeros(nf, nt, ns))
                   /\ Y' = demix(x, mem1[wobj])

\* lines 96-103: the head of one outer iteration
EpochHead ==
    /\ pc = "epoch"
    /\ IF CallbackDue(callback, epoch)
       THEN /\ cbEpochs' = Append(cbEpochs, epoch)
            /\ cbArg' = CallbackArgument(Y, X, proj_back)
       ELSE UNCHANGED <<cbEpochs, cbArg>>
    /\ pc' = "source"
    /\ s' = 0
    /\ UNCHANGED <<err, Xarg, X, n_freq, n_frames, n_chan, n_src, n_iter, n_components,
                   proj_back, return_filters, callback, mem, W0, W, T, V, R, P, Y, n,
                   epoch, ret>>

\* line 126: the frequencies at which np.linalg.inv may raise while it returned at
\* every earlier one; 0 when it returns at every frequency
RaiseChoices(Wm, Xm, Rm, src) ==
    {stop \in 0..Len(Wm) :
        /\ \A f \in 1..(IF stop = 0 THEN Len(Wm) ELSE stop - 1) :
              InvMayReturn(RowSystem(Wm, Xm, Rm, f, src))
        /\ stop # 0 => InvMayRaise(RowSystem(Wm, Xm, Rm, stop, src))}

\* lines 107-127 for source s: the T, R, V, R updates, then the rows of W per
\* frequency, which stop at the frequency where np.linalg.inv raises
UpdateSource ==
    /\ pc = "source"
    /\ T' = UpdateT(T, V, R, P, s + 1)
    /\ V' = UpdateV(T', V, RefreshR(R, T', V, s + 1), P, s + 1)
    /\ R' = RefreshR(R, T', V', s + 1)
    /\ \E stop \in RaiseChoices(mem[W], X, R', s + 1) :
          IF stop # 0
          THEN /\ mem' = [mem EXCEPT ![W] = UpdateRows(mem[W], X, R', s + 1, stop - 1)]
               /\ pc' = "raised" /\ err' = "LinAlgError"
               /\ UNCHANGED <<s, epoch>>
          ELSE /\ mem' = [mem EXCEPT ![W] = UpdateRows(mem[W], X, R', s + 1, n_freq)]
               /\ err' = err
               /\ IF s + 1 < n_src
                  THEN /\ s' = s + 1 /\ pc' = "source" /\ epoch' = epoch
                  ELSE /\ s' = s /\ epoch' = epoch + 1
                       /\ pc' = LoopHead(epoch + 1, n_iter)
    /\ UNCHANGED <<Xarg, X, n_freq, n_frames, n_chan, n_src, n_iter, n_components,
                   proj_back, return_filters, callback, W0, W, P, Y, n,
                   cbEpochs, cbArg, ret>>

\* lines 129-142: the final demixing, lambda_aux[n], projection back, return
Finish ==
    /\ pc = "final"
    /\ LET Yf == demix(X, mem[W])
           Ys == IF proj_back THEN Scaled(Yf, projection_back(Yf, RefChannel(X))) ELSE Yf
       IN  /\ P' = PowerOf(Yf)
           /\ IF n_src > 0 /\ n = <<>>
              THEN /\ pc' = "raised" /\ err' = "UnboundLocalError"
                   /\ Y' = Yf /\ ret' = <<>>
              ELSE /\ pc' = "done" /\ err' = err
                   /\ Y' = Ys
                   /\ ret' = IF return_filters THEN <<Ys, W>> ELSE <<Ys>>
    /\ UNCHANGED <<Xarg, X, n_freq, n_frames, n_chan, n_src, n_iter, n_components,
                   proj_back, return_filters, callback, mem, W0, W, T, V, R, n,
                   epoch, s, cbEpochs, cbArg>>

Inputs == {XInput(fill, d0, d1, c) : fill \in XFills, d0 \in 1..MaxDim, d1 \in 1..MaxDim,
                                    c \in 1..MaxChan}
NSrcArgs == {{}} \cup {{k} : k \in 1..MaxChan}

Next ==
    \/ /\ pc = "idle"
       /\ \E xin \in Inputs, nsrcArg \in NSrcArgs, ni \in NIterChoices, pb \in BOOLEAN,
             w0 \in {"None", "obj_W0"}, k \in NCompChoices, cb \in BOOLEAN, rf \in BOOLEAN,
             seed \in RandSeeds :
               Call(xin, nsrcArg, ni, pb, w0, k, cb, rf, seed)
    \/ EpochHead
    \/ UpdateSource
    \/ Finish

Spec == Init /\ [][Next]_vars

-----------------------------------------------------------------------------
(* Properties *)

Called == pc # "idle"
Ended == pc \in {"done", "raised"}

\* the W the call starts from: the identity, or the values of the caller's W0
InitialW == IF W0 = "None" THEN EyeW(n_freq, n_chan, n_src) ELSE W0Input(n_freq, n_chan)

\* C1: a call whose effective n_src differs from the channel count of X fails
\* at the assertion before any work: no callback invocation, no outer
\* iteration, W0 neither read nor copied, nothing initialised, no result.
C1_MismatchFailsBeforeWork ==
    (Called /\ n_src # n_chan) =>
        /\ pc = "raised" /\ err = "AssertionError"
        /\ cbEpochs = <<>> /\ cbArg = <<>>
        /\ epoch = 0
        /\ W = "unbound" /\ mem.obj_W = <<>>
        /\ T = <<>> /\ V = <<>> /\ Y = <<>>
        /\ ret = <<>>

C1_Witness ==
    /\ pc = "raised" /\ err = "AssertionError"
    /\ n_src # n_chan /\ callback /\ W0 = "obj_W0" /\ n_iter > 0

\* the heads of outer iterations that have run so far
HeadsRun == IF pc = "source" \/ err = "LinAlgError" THEN epoch + 1 ELSE epoch

\* the multiples of CallbackEvery below k, in increasing order
Schedule(k) ==
    Arr1(IF k <= 0 THEN 0 ELSE (k + CallbackEvery - 1) \div CallbackEvery,
         LAMBDA i : CallbackEvery * (i - 1))

\* C2: with a callback, the epochs at which it has been invoked are exactly
\* the multiples of 10 among the outer iterations started so far, each once
\* and in increasing order; once the loop is over they are the multiples of 10
\* below n_iter, ceil(n_iter / 10) of them; without a callback none.
C2_CallbackEveryTenth ==
    Called =>
        /\ cbEpochs = IF callback THEN Schedule(HeadsRun) ELSE <<>>
        /\ (pc \in {"final", "done"} \/ err = "UnboundLocalError") =>
              /\ HeadsRun = IF n_iter > 0 THEN n_iter ELSE 0
              /\ callback /\ n_iter > 0 =>
                    Len(cbEpochs) = (n_iter + CallbackEvery - 1) \div CallbackEvery

C2_Witness ==
    /\ pc = "done" /\ callback /\ n_iter = MaxIter
    /\ Len(cbEpochs) = (MaxIter + CallbackEvery - 1) \div CallbackEvery
    /\ Len(cbEpochs) > 1

\* C3: at every callback invocation the estimate handed over is X demixed by
\* the value W has at that moment, with the projection-back scaling on top
\* when proj_back is set.
C3_CallbackGetsCurrentEstimate ==
    (pc = "source" /\ s = 0 /\ CallbackDue(callback, epoch) /\ n_components >= 1) =>
        cbArg = CallbackArgument(demix(X, mem[W]), X, proj_back)

\* C4: for a valid call (n_iter >= 1, n_components >= 1) the returned Y has the
\* axis layout of the input X: its first two dimensions are those of X in the
\* same order, the third is n_src.
C4_OutputKeepsInputLayout ==
    (pc = "done" /\ n_iter >= 1 /\ n_components >= 1) => Shape3(ret[1]) = <<Shape3(Xarg)[1], Shape3(Xarg)[2], n_src>>

\* C5: a single-source call (one channel, n_src 1) with n_iter >= 1 completes
\* without raising and returns X times one finite scalar per frequency bin.
C5_SingleSourceIsScaledInput ==
    (Ended /\ n_chan = 1 /\ n_src = 1 /\ n_iter >= 1 /\ n_components >= 1) =>
        /\ pc = "done"
        /\ \A f \in 1..n_freq : \E c \in {"zero", "nz", "fin"} :
              \A t \in 1..n_frames : ret[1][f][t][1] = Mul(X[f][t][1], c)

AllAtLeastFloor(A) ==
    \A i \in 1..Len(A) : \A j \in 1..Len(A[i]) : \A k \in 1..Len(A[i][j]) :
        A[i][j][k] = "hi"

\* C6: after every outer iteration every entry of T and of V, for every
\* source, is a finite number >= 0.001.
C6_FactorsStayAboveFloor ==
    (pc \in {"epoch", "final"} /\ epoch >= 1 /\ n_components >= 1) =>
        AllAtLeastFloor(T) /\ AllAtLeastFloor(V)

\* C7: the caller's W0 holds the values it held before the call at every
\* point of the call, returned or raised, and W (also when returned) is
\* another array than W0.
C7_W0IsCopied ==
    (Called /\ W0 = "obj_W0") =>
        /\ mem[W0] = W0Input(n_freq, n_chan)
        /\ W # W0
        /\ (pc = "done" /\ return_filters) => ret[2] # W0

C7_Witness ==
    /\ pc = "done" /\ W0 = "obj_W0" /\ return_filters
    /\ n_iter > 0 /\ mem[ret[2]] # mem[W0]

\* C8 as stated: a call with a non-positive n_iter or n_components ends
\* rejected: it raises before the first outer iteration and any callback and
\* returns nothing.
C8_NonPositiveCountsRejected ==
    (Ended /\ n_src = n_chan /\ (n_iter <= 0 \/ n_components <= 0)) =>
        /\ pc = "raised" /\ epoch = 0
        /\ cbEpochs = <<>> /\ ret = <<>>

\* C8 amended: a negative n_components fails in the random initialisation,
\* before the first outer iteration and any callback, with no result; a
\* non-positive n_iter is not rejected: no outer iteration runs, no callback
\* is invoked, and the call, when n_components >= 0, ends returning X demixed
\* by the initial W (projection back applied if set) for two or more sources
\* and raising at lambda_aux[n] for one; n_components = 0 is not rejected.
C8_OnlyNegativeComponentsRejected ==
    /\ (Called /\ n_src = n_chan /\ n_components < 0) =>
          /\ pc = "raised" /\ err = "ValueError"
          /\ cbEpochs = <<>> /\ ret = <<>> /\ epoch = 0 /\ T = <<>>
    /\ (Called /\ n_src = n_chan /\ n_components >= 0 /\ n_iter <= 0) =>
          /\ pc \in {"final", "done", "raised"}
          /\ cbEpochs = <<>> /\ epoch = 0
          /\ mem[W] = InitialW
          /\ pc = "raised" => (err = "UnboundLocalError" /\ n_src = 1)
          /\ pc = "done" =>
                (n_src > 1 /\ ret[1] = CallbackArgument(demix(X, InitialW), X, proj_back))
    /\ (Called /\ n_src = n_chan /\ n_components = 0 /\ n_iter > 0) =>
          ~(pc = "raised" /\ err \in {"AssertionError", "ValueError"})

C8_Witness ==
    /\ pc = "done" /\ n_iter = 0 /\ n_components > 0
    /\ ret # <<>> /\ ret[1] = CallbackArgument(demix(X, InitialW), X, proj_back)

\* C9: whenever the T update of source s reads R[:, :, s], it is the product
\* T[:, :, s] . V[:, :, s] of the current T and V.
C9_PowerModelConsistent ==
    pc = "source" =>
        \A f \in 1..n_freq : \A t \in 1..n_frames :
            R[f][t][s + 1] = DotTV(T, V, f, t, s + 1)

\* C10: at the first source update of every outer iteration (W is still the W
\* of the start of the iteration) Y is X demixed by W and P is |Y|^2.
C10_PowerFromCurrentDemix ==
    (pc = "source" /\ s = 0 /\ n_components >= 1) =>
        /\ Y = demix(X, mem[W])
        /\ P = PowerOf(demix(X, mem[W]))

====
